---- MODULE Spec2Model ----
(***************************************************************************)
(* A model of qubes-stats (qubesstats/stats.py, count.py, bake.py).        *)
(*                                                                         *)
(* Time is counted in whole hours relative to 2022-07-01 00:00 UTC, so the *)
(* scoped month July 2022 is the hours 0 .. 743, June 2022 is the hours    *)
(* below 0 and August 2022 starts at hour 744.  A timedelta of             *)
(* EXIT_DESCRIPTOR_TOLERANCE hours is that many units.                     *)
(***************************************************************************)
EXTENDS Integers, Sequences, FiniteSets, TLC

VARIABLES
    pc,          \* position of the running program (bake.py / count.py main)
    batch,       \* the descriptor archive handed to bake_exit_cache (input)
    exit_cache,  \* QubesCounter.exit_cache: address -> ExitNodeAddress (list)
    cache_file,  \* the pickle file exit_cache-YYYY-MM.pickle on disk
    scope,       \* QubesCounter.(year, month)
    counter,     \* QubesCounter as a dict: release -> Release
    fed,         \* the records passed to QubesCounter.count so far, in order
    file,        \* the rows csv.reader makes of the access log (input)
    lineno,      \* rows of the log consumed so far
    parser,      \* the parse_combined generator: suspended, raised, exhausted
    requests,    \* the Requests parse_combined has yielded, in order
    force_fetch, \* main's force_fetch once the month is resolved
    error,       \* the exception that ended the run, "" while there is none
    log,         \* the messages logged at level 25, in order
    datafile     \* stats.json on disk

vars == <<pc, batch, exit_cache, cache_file, scope, counter, fed,
          file, lineno, parser, requests, force_fetch, error, log, datafile>>

runVars == <<force_fetch, error, log, datafile>>

indexVars == <<batch, exit_cache, cache_file>>
countVars == <<scope, counter, fed>>
parseVars == <<file, lineno, parser, requests>>

(***************************************************************************)
(* Bounds of the model.                                                    *)
(***************************************************************************)
MaxDescriptors == 3
MaxRecords == 3
MaxLines == 3

(***************************************************************************)
(* Program constants.                                                      *)
(***************************************************************************)
EXIT_DESCRIPTOR_TOLERANCE == 24

(***************************************************************************)
(* Inputs: addresses and the instants descriptors are published/seen at.   *)
(***************************************************************************)
Addresses == {"A", "B"}

DescriptorTimes == {0, 2, 25, 26, 27}

\* One exit-list entry: published, last_status and its exit addresses
\* (bake_exit_cache registers the descriptor under address[0] of each).
Intervals == {iv \in DescriptorTimes \X DescriptorTimes : iv[1] <= iv[2]}

Descriptors ==
    { [published |-> iv[1], last_status |-> iv[2], exit_addresses |-> <<a>>] :
        iv \in Intervals, a \in Addresses }

\* the sequences over S of length at most n
SeqsUpTo(S, n) == UNION {[1..k -> S] : k \in 0..n}

Batches == SeqsUpTo(Descriptors, MaxDescriptors)

(***************************************************************************)
(* class ExitNodeAddress(list)                                             *)
(***************************************************************************)
\* ExitNodeAddress.register: append (published, last_status)
register(self, descriptor) ==
    Append(self, <<descriptor.published, descriptor.last_status>>)

\* ExitNodeAddress.was_active with both comparisons strict
was_active_strict(self, date) ==
    \E k \in 1..Len(self) :
        /\ self[k][1] - EXIT_DESCRIPTOR_TOLERANCE < date
        /\ date < self[k][2] + EXIT_DESCRIPTOR_TOLERANCE

\* ExitNodeAddress.was_active: any interval widened by the tolerance on both
\* sides contains the date
was_active(self, date) ==
    \E k \in 1..Len(self) :
        /\ self[k][1] - EXIT_DESCRIPTOR_TOLERANCE <= date
        /\ date <= self[k][2] + EXIT_DESCRIPTOR_TOLERANCE

\* tuple comparison used by list.sort(): lexicographic on (start, end)
TupleLess(x, y) == x[1] < y[1] \/ (x[1] = y[1] /\ x[2] < y[2])

RECURSIVE InsertSorted(_, _)
InsertSorted(sorted, x) ==
    IF sorted = <<>> THEN <<x>>
    ELSE IF TupleLess(x, Head(sorted)) THEN <<x>> \o sorted
    ELSE <<Head(sorted)>> \o InsertSorted(Tail(sorted), x)

\* list.sort()
RECURSIVE sort(_)
sort(self) ==
    IF self = <<>> THEN <<>>
    ELSE InsertSorted(sort(SubSeq(self, 1, Len(self) - 1)), self[Len(self)])

\* the two pops and the insert of compact: self[i], self[i+1] replaced by
\* (desc0[0], desc1[1])
MergeAt(self, i) ==
    SubSeq(self, 1, i - 1)
        \o << <<self[i][1], self[i + 1][2]>> >>
        \o SubSeq(self, i + 2, Len(self))

\* the while loop of compact stepping to the next index after a merge too
RECURSIVE CompactLoop_advance(_, _)
CompactLoop_advance(self, i) ==
    IF ~(i < Len(self)) THEN self
    ELSE IF self[i][2] >= self[i + 1][1] - EXIT_DESCRIPTOR_TOLERANCE
         THEN CompactLoop_advance(MergeAt(self, i), i + 1)
         ELSE CompactLoop_advance(self, i + 1)

\* the while loop of compact merging only intervals that touch or overlap
RECURSIVE CompactLoop_no_tolerance(_, _)
CompactLoop_no_tolerance(self, i) ==
    IF ~(i < Len(self)) THEN self
    ELSE IF self[i][2] >= self[i + 1][1]
         THEN CompactLoop_no_tolerance(MergeAt(self, i), i)
         ELSE CompactLoop_no_tolerance(self, i + 1)

\* the while loop of compact, from index i (1-based)
RECURSIVE CompactLoop(_, _)
CompactLoop(self, i) ==
    IF ~(i < Len(self)) THEN self
    ELSE IF self[i][2] >= self[i + 1][1] - EXIT_DESCRIPTOR_TOLERANCE
         THEN CompactLoop(MergeAt(self, i), i)
         ELSE CompactLoop(self, i + 1)

\* ExitNodeAddress.compact
compact(self) == CompactLoop(sort(self), 1)

(***************************************************************************)
(* class QubesCounter: the exit cache                                      *)
(***************************************************************************)
\* collections.defaultdict(ExitNodeAddress): a function on the keys present
EmptyCache == [a \in {} |-> <<>>]

\* self.exit_cache[address].register(descriptor), creating the entry
RegisterAddress(cache, address, descriptor) ==
    LET old == IF address \in DOMAIN cache THEN cache[address] ELSE <<>>
    IN [a \in DOMAIN cache \cup {address} |->
            IF a = address THEN register(old, descriptor) ELSE cache[a]]

RECURSIVE RegisterAddresses(_, _, _)
RegisterAddresses(cache, descriptor, k) ==
    IF k > Len(descriptor.exit_addresses) THEN cache
    ELSE RegisterAddresses(
            RegisterAddress(cache, descriptor.exit_addresses[k], descriptor),
            descriptor, k + 1)

\* the reader loop of bake_exit_cache over the first n descriptors
RECURSIVE RegisterBatch(_, _, _)
RegisterBatch(cache, descriptors, n) ==
    IF n = 0 THEN cache
    ELSE RegisterAddresses(RegisterBatch(cache, descriptors, n - 1),
                           descriptors[n], 1)

\* for cache in self.exit_cache.values(): cache.compact()
CompactAll(cache) == [a \in DOMAIN cache |-> compact(cache[a])]

\* QubesCounter.was_exit asking every entry of the cache, whatever its address
was_exit_any(cache, address, timestamp) ==
    \E a \in DOMAIN cache : was_active(cache[a], timestamp)

\* QubesCounter.was_exit, on an (address, timestamp) pair
was_exit(cache, address, timestamp) ==
    /\ address \in DOMAIN cache
    /\ was_active(cache[address], timestamp)

\* bake_exit_cache without the loop that compacts
Baked_uncompacted(cache, descriptors) ==
    RegisterBatch(cache, descriptors, Len(descriptors))

\* the index bake_exit_cache leaves in self.exit_cache and in the pickle
Baked(cache, descriptors) ==
    CompactAll(RegisterBatch(cache, descriptors, Len(descriptors)))

\* n_addr: the exit addresses of the first n descriptors
RECURSIVE n_addr(_, _)
n_addr(descriptors, n) ==
    IF n = 0 THEN 0
    ELSE n_addr(descriptors, n - 1) + Len(descriptors[n].exit_addresses)

\* 'parsed %d descriptors with %d addresses' % (n_desc, n_addr)
ParsedMessage(descriptors) ==
    "parsed " \o ToString(Len(descriptors)) \o " descriptors with "
        \o ToString(n_addr(descriptors, Len(descriptors))) \o " addresses"

\* the messages bake_exit_cache logs at level 25 when the reader does not
\* raise
BakeLog(descriptors) ==
    <<"parsing exit node list", ParsedMessage(descriptors),
      "saving exit node list">>

\* open(self.exit_cache_file, 'wb') succeeds or raises OSError: the file may
\* be read-only or a directory, or it is missing from a directory that
\* cannot be written
WritableOutcomes == BOOLEAN

\* the pickle file after pickle.dump(index, open(.., 'wb')): the file is
\* written in place and keeps its mode, so one that could not be read still
\* cannot
Dumped(index) ==
    [status |-> IF cache_file.status = "unreadable" THEN "unreadable"
                ELSE "ok",
     index |-> index]

\* QubesCounter.bake_exit_cache: register, compact, pickle.dump; when the
\* reader raises after n descriptors, those are registered, nothing is
\* compacted or saved and the exception leaves main; when the pickle cannot
\* be opened for writing, the OSError of open() leaves main
bake_exit_cache ==
    /\ pc = "start"
    /\ \/ \E writable \in WritableOutcomes :
             /\ exit_cache' = Baked(exit_cache, batch)
             /\ log' = log \o BakeLog(batch)
             /\ IF writable
                THEN /\ cache_file' = Dumped(exit_cache')
                     /\ pc' = "baked"
                     /\ UNCHANGED error
                ELSE /\ error' = "OSError"
                     /\ pc' = "failed"
                     /\ UNCHANGED cache_file
       \/ \E n \in 0..(Len(batch) - 1) :
             /\ exit_cache' = RegisterBatch(exit_cache, batch, n)
             /\ log' = Append(log, "parsing exit node list")
             /\ error' = "DescriptorError"
             /\ pc' = "failed"
             /\ UNCHANGED cache_file
    /\ UNCHANGED <<batch, countVars, parseVars, force_fetch, datafile>>

(***************************************************************************)
(* The outcome of a call: the value it returns or the exception it raises. *)
(***************************************************************************)
Returns(value) == [raised |-> "", value |-> value]
Raises(exception) == [raised |-> exception]

(***************************************************************************)
(* Timestamps: an aware datetime is its instant (hours, UTC) and its UTC   *)
(* offset; .year and .month are read off the local wall clock.             *)
(***************************************************************************)
DateTime(utc, offset) == [utc |-> utc, offset |-> offset]

\* (timestamp.year, timestamp.month) for the months around July 2022
year_month(timestamp) ==
    LET local == timestamp.utc + timestamp.offset
    IN IF local < 0 THEN <<2022, 6>>
       ELSE IF local < 31 * 24 THEN <<2022, 7>>
       ELSE <<2022, 8>>

(***************************************************************************)
(* class Release                                                           *)
(***************************************************************************)
\* Release.__init__
NewRelease == [set_plain |-> {}, req_plain |-> 0, req_tor |-> 0]

\* Release.plain
plain(self) == Cardinality(self.set_plain)

\* Release.tor made total: 0 when nothing was counted as plain
tor_zero(self) ==
    IF self.req_plain = 0 THEN Returns(0)
    ELSE Returns((self.req_tor * plain(self)) \div self.req_plain)

\* Release.tor keeping the remainder of the division instead of the quotient
tor_remainder(self) ==
    IF self.req_plain = 0 THEN Raises("ZeroDivisionError")
    ELSE Returns((self.req_tor * plain(self)) % self.req_plain)

\* Release.tor: integer division, ZeroDivisionError when _req_plain is 0
tor(self) ==
    IF self.req_plain = 0 THEN Raises("ZeroDivisionError")
    ELSE Returns((self.req_tor * plain(self)) \div self.req_plain)

\* Release.asdict (the exception of tor propagates)
asdict(self) ==
    IF tor(self).raised # "" THEN tor(self)
    ELSE Returns([plain |-> plain(self), tor |-> tor(self).value])

\* Release.count assigning the set instead of adding to it
Release_count_assign(self, record, cache) ==
    IF was_exit(cache, record.address, record.timestamp.utc)
    THEN [self EXCEPT !.req_tor = @ + 1]
    ELSE [self EXCEPT !.set_plain = {record.address},
                      !.req_plain = @ + 1]

\* Release.count adding the address of a relay record to the set as well
Release_count_add_relay(self, record, cache) ==
    IF was_exit(cache, record.address, record.timestamp.utc)
    THEN [self EXCEPT !.set_plain = @ \cup {record.address},
                      !.req_tor = @ + 1]
    ELSE [self EXCEPT !.set_plain = @ \cup {record.address},
                      !.req_plain = @ + 1]

\* Release.count, with self.counter.was_exit(record) answered by the cache
Release_count(self, record, cache) ==
    IF was_exit(cache, record.address, record.timestamp.utc)
    THEN [self EXCEPT !.req_tor = @ + 1]
    ELSE [self EXCEPT !.set_plain = @ \cup {record.address},
                      !.req_plain = @ + 1]

(***************************************************************************)
(* class QubesCounter(dict)                                                *)
(***************************************************************************)
EmptyCounter == [r \in {} |-> NewRelease]

\* QubesCounter.__missing__: self[key] creates the Release on first access
missing(self, key) ==
    IF key \in DOMAIN self THEN self
    ELSE [r \in DOMAIN self \cup {key} |->
            IF r = key THEN NewRelease ELSE self[r]]

\* self[key].count(record)
CountInto(self, key, record, cache) ==
    LET made == missing(self, key)
    IN [made EXCEPT ![key] = Release_count(made[key], record, cache)]

\* QubesCounter.count without the test of the month
QubesCounter_count_unscoped(self, record, cache, year_and_month) ==
    CountInto(CountInto(self, record.release, record, cache),
              "any", record, cache)

\* QubesCounter.count
QubesCounter_count(self, record, cache, year_and_month) ==
    IF year_month(record.timestamp) # year_and_month THEN self
    ELSE CountInto(CountInto(self, record.release, record, cache),
                   "any", record, cache)

(***************************************************************************)
(* Records reaching the counter.                                           *)
(***************************************************************************)
Releases == {"r4.1", "any"}

RecordTimestamps ==
    {DateTime(1, 0), DateTime(100, 0), DateTime(750, 0), DateTime(-1, 2)}

Records ==
    { [address |-> a, timestamp |-> ts, release |-> rel] :
        a \in Addresses, ts \in RecordTimestamps, rel \in Releases }

\* QubesCounter.count(record), called on a counter whose index is loaded
count(record) ==
    /\ pc = "count"
    /\ Len(fed) < MaxRecords
    /\ counter' = QubesCounter_count(counter, record, exit_cache, scope)
    /\ fed' = Append(fed, record)
    /\ UNCHANGED <<pc, indexVars, scope, parseVars, runVars>>

(***************************************************************************)
(* Text.  A text is a sequence of lexemes: single digits, the space, "/",  *)
(* "%XX" escapes and whole words.  A row of the log is the list of texts   *)
(* csv.reader(file, delimiter=' ') yields for one line.                    *)
(***************************************************************************)
Digits == <<"0", "1", "2", "3", "4", "5", "6", "7", "8", "9">>

IsDigit(c) == \E d \in 1..10 : Digits[d] = c

DigitValue(c) == (CHOOSE d \in 1..10 : Digits[d] = c) - 1

RECURSIVE DecimalValue(_)
DecimalValue(text) ==
    IF text = <<>> THEN 0
    ELSE 10 * DecimalValue(SubSeq(text, 1, Len(text) - 1))
            + DigitValue(text[Len(text)])

\* int(text): the value of a run of decimal digits, ValueError otherwise
int(text) ==
    IF text # <<>> /\ \A k \in 1..Len(text) : IsDigit(text[k])
    THEN Returns(DecimalValue(text))
    ELSE Raises("ValueError")

\* positions of the separator in a text
Positions(text, sep) == {k \in 1..Len(text) : text[k] = sep}

Min(S) == CHOOSE x \in S : \A y \in S : x <= y
Max(S) == CHOOSE x \in S : \A y \in S : x >= y

\* text.split(' ', 1): one part when there is no space, else two
split1(text) ==
    IF Positions(text, " ") = {} THEN <<text>>
    ELSE LET k == Min(Positions(text, " "))
         IN <<SubSeq(text, 1, k - 1), SubSeq(text, k + 1, Len(text))>>

\* text.rsplit(' ', 1) cutting at the first space instead of the last
rsplit1_at_first(text) ==
    IF Positions(text, " ") = {} THEN <<text>>
    ELSE LET k == Min(Positions(text, " "))
         IN <<SubSeq(text, 1, k - 1), SubSeq(text, k + 1, Len(text))>>

\* text.rsplit(' ', 1)
rsplit1(text) ==
    IF Positions(text, " ") = {} THEN <<text>>
    ELSE LET k == Max(Positions(text, " "))
         IN <<SubSeq(text, 1, k - 1), SubSeq(text, k + 1, Len(text))>>

\* urllib.parse.unquote on one lexeme
UnquoteLexeme(c) ==
    CASE c = "%5F" -> "_"
      [] c = "%2F" -> "/"
      [] c = "%20" -> " "
      [] OTHER -> c

\* urllib.parse.unquote
unquote(text) == [k \in 1..Len(text) |-> UnquoteLexeme(text[k])]

MonthNames == {"Jun", "Jul", "Aug"}

\* hours from 2022-07-01 00:00 to the first of the month, year 2022
MonthStart(mon) ==
    CASE mon = "Jun" -> 0 - 30 * 24
      [] mon = "Jul" -> 0
      [] mon = "Aug" -> 31 * 24

DaysIn(mon) == IF mon = "Jun" THEN 30 ELSE 31

\* datetime.strptime(f'{localtime1} {localtime2}', '[%d/%b/%Y:%H:%M:%S %z]')
\* localtime1 is <<"[", day, month name, year, hour>> (minutes and seconds
\* are below the resolution of the model), localtime2 is <<sign, hh, "]">>.
strptime(localtime1, localtime2) ==
    IF /\ Len(localtime1) = 5
       /\ localtime1[1] = "["
       /\ localtime1[3] \in MonthNames
       /\ int(localtime1[2]).raised = ""
       /\ int(localtime1[2]).value \in 1..DaysIn(localtime1[3])
       /\ int(localtime1[4]).raised = ""
       /\ int(localtime1[4]).value = 2022
       /\ int(localtime1[5]).raised = ""
       /\ int(localtime1[5]).value \in 0..23
       /\ Len(localtime2) = 3
       /\ localtime2[1] \in {"+", "-"}
       /\ int(localtime2[2]).raised = ""
       /\ int(localtime2[2]).value \in 0..23
       /\ localtime2[3] = "]"
    THEN LET local == MonthStart(localtime1[3])
                        + (int(localtime1[2]).value - 1) * 24
                        + int(localtime1[5]).value
             offset == IF localtime2[1] = "+" THEN int(localtime2[2]).value
                       ELSE 0 - int(localtime2[2]).value
         IN Returns(DateTime(local - offset, offset))
    ELSE Raises("ValueError")

(***************************************************************************)
(* parse_combined                                                          *)
(***************************************************************************)
Request(address, timestamp, path, status) ==
    [address |-> address, timestamp |-> timestamp, path |-> path,
     status |-> status]

Raise == [kind |-> "raise"]
Continue == [kind |-> "continue"]
Yield(request) == [kind |-> "yield", request |-> request]

\* the body of the for loop of parse_combined on one row
ParseLine(line) ==
    IF Len(line) # 10 THEN Raise
    ELSE LET address == line[1]
             localtime1 == line[4]
             localtime2 == line[5]
             request == line[6]
             status == int(line[7])
             length == int(line[8])
         IN IF status.raised # "" \/ length.raised # "" THEN Raise
            ELSE IF status.value = 400 THEN Continue
            ELSE IF Len(split1(request)) # 2 THEN Raise
            ELSE IF Len(rsplit1(split1(request)[2])) # 2 THEN Raise
            ELSE IF strptime(localtime1, localtime2).raised # "" THEN Raise
            ELSE Yield(Request(address,
                               strptime(localtime1, localtime2).value,
                               unquote(rsplit1(split1(request)[2])[1]),
                               status.value))

\* the generator runs from row i until it yields, raises or runs out of rows
RECURSIVE Resume(_, _)
Resume(rows, i) ==
    IF i > Len(rows) THEN [kind |-> "StopIteration", at |-> Len(rows)]
    ELSE LET r == ParseLine(rows[i])
         IN IF r.kind = "continue" THEN Resume(rows, i + 1)
            ELSE [kind |-> r.kind, at |-> i,
                  request |-> IF r.kind = "yield" THEN r.request ELSE <<>>]

\* next(parser) on a generator that has not finished
next_parse_combined ==
    /\ parser = "suspended"
    /\ LET r == Resume(file, lineno + 1)
       IN /\ lineno' = r.at
          /\ parser' = CASE r.kind = "yield" -> "suspended"
                         [] r.kind = "raise" -> "raised"
                         [] OTHER -> "exhausted"
          /\ requests' = IF r.kind = "yield" THEN Append(requests, r.request)
                         ELSE requests
    /\ UNCHANGED <<pc, indexVars, countVars, file, runVars>>

(***************************************************************************)
(* Rows of the access log.                                                 *)
(***************************************************************************)
Row(address, localtime1, localtime2, request, status, length) ==
    <<address, <<"-">>, <<"-">>, localtime1, localtime2, request, status,
      length, <<"-">>, <<"libdnf">> >>

Jul01 == <<"[", <<"0", "1">>, "Jul", <<"2", "0", "2", "2">>, <<"0", "1">> >>
Jul05 == <<"[", <<"0", "5">>, "Jul", <<"2", "0", "2", "2">>, <<"0", "4">> >>
Aug01 == <<"[", <<"0", "1">>, "Aug", <<"2", "0", "2", "2">>, <<"0", "6">> >>
BadMonth == <<"[", <<"0", "1">>, "Foo", <<"2", "0", "2", "2">>, <<"0", "1">> >>
Utc == <<"+", <<"0", "0">>, "]">>
Cest == <<"+", <<"0", "2">>, "]">>

GetRepomd == <<"GET", " ", "/", "r4.1", "/", "repomd.xml", " ", "HTTP/1.1">>
GetAny == <<"GET", " ", "/", "any", "/", "repomd.xml", " ", "HTTP/1.1">>
GetQuoted == <<"GET", " ", "/", "r4.1", "%2F", "repomd.xml", " ", "HTTP/1.1">>
GetSpaces == <<"GET", " ", "/", "shell?cd+", " ", "x", " ", "HTTP/1.1">>
GetAsc == <<"GET", " ", "/", "r4.1", "/", "repomd.xml", ".asc", " ", "HTTP/1.1">>
Garbage == <<"\\x02\\xB5">>
OneSpace == <<"GET", " ", "/">>

S200 == <<"2", "0", "0">>
S301 == <<"3", "0", "1">>
S400 == <<"4", "0", "0">>
S404 == <<"4", "0", "4">>
L169 == <<"1", "6", "9">>
Dash == <<"-">>

LineSamples ==
    { Row("A", Jul01, Utc, GetRepomd, S200, L169),
      Row("B", Jul01, Utc, GetRepomd, S200, L169),
      Row("A", Jul01, Cest, GetAny, S301, L169),
      Row("B", Jul05, Utc, GetQuoted, S200, L169),
      Row("A", Jul05, Utc, GetSpaces, S301, L169),
      Row("A", Aug01, Utc, GetRepomd, S200, L169),
      Row("A", Jul01, Utc, GetRepomd, S404, L169),
      Row("A", Jul01, Utc, Garbage, S400, L169),
      Row("A", BadMonth, Utc, OneSpace, S400, L169),
      Row("A", Jul01, Utc, Garbage, S400, Dash),
      SubSeq(Row("A", Jul01, Utc, Garbage, S400, L169), 1, 9),
      Row("A", Jul01, Utc, Garbage, S200, L169),
      Row("A", Jul01, Utc, OneSpace, S200, L169),
      Row("A", Jul01, Utc, GetRepomd, Dash, L169),
      Row("A", Jul01, Utc, GetRepomd, S200, Dash),
      Row("A", BadMonth, Utc, GetRepomd, S200, L169),
      <<>> }

Files == SeqsUpTo(LineSamples, MaxLines)

(***************************************************************************)
(* filter_for_status and release_filter                                    *)
(***************************************************************************)
\* filter_for_status without the upper end of the range
filter_for_status_any(request) == 200 <= request.status

\* the test of filter_for_status
filter_for_status(request) == 200 <= request.status /\ request.status < 400

RECURSIVE Join(_)
Join(text) == IF text = <<>> THEN "" ELSE Head(text) \o Join(Tail(text))

\* (.*/)?repomd\.xml(\.metalink)?$ on the rest of the path
MatchesRepomd(rest) ==
    \E n \in 1..2 :
        /\ Len(rest) >= n
        /\ SubSeq(rest, Len(rest) - n + 1, Len(rest))
              = SubSeq(<<"repomd.xml", ".metalink">>, 1, n)
        /\ Len(rest) = n \/ rest[Len(rest) - n] = "/"

\* regexp_path.search(path) for the pattern of DEFAULT_PARSERS,
\* ^/(?P<release>[^~/]+)/(.*/)?repomd\.xml(\.metalink)?$ : the group
\* 'release' of the match, or no match
regexp_path_search(path) ==
    LET slashes == {k \in 2..Len(path) : path[k] = "/"}
        k == Min(slashes)
    IN IF /\ Len(path) >= 1
          /\ path[1] = "/"
          /\ slashes # {}
          /\ k > 2
          /\ \A j \in 2..(k - 1) : path[j] # "~"
          /\ MatchesRepomd(SubSeq(path, k + 1, Len(path)))
       THEN [matched |-> TRUE, release |-> Join(SubSeq(path, 2, k - 1))]
       ELSE [matched |-> FALSE]

Record(address, timestamp, release) ==
    [address |-> address, timestamp |-> timestamp, release |-> release]

\* release_filter on one request: the Record yielded, if any
release_filter(request) ==
    LET match == regexp_path_search(request.path)
    IN IF match.matched
       THEN <<Record(request.address, request.timestamp, match.release)>>
       ELSE <<>>

\* parse_combined | filter_for_status | release_filter on one row: the
\* records it contributes to the loop of main
Pipeline(line) ==
    LET r == ParseLine(line)
    IN IF r.kind = "yield" /\ filter_for_status(r.request)
       THEN release_filter(r.request)
       ELSE <<>>

(***************************************************************************)
(* count.py main                                                           *)
(***************************************************************************)
\* QubesCounter.timestamp: '{:04d}-{:02d}'
timestamp(year_and_month) ==
    CASE year_and_month = <<2022, 6>> -> "2022-06"
      [] year_and_month = <<2022, 7>> -> "2022-07"
      [] year_and_month = <<2022, 8>> -> "2022-08"

\* fetch_exit_cache falling back to a readable pickle when the fetch fails
fetch_exit_cache_fallback(net, n, writable, logged) ==
    IF net # "ok" /\ cache_file.status = "ok"
    THEN /\ log' = logged \o <<"downloading exit node list",
                               "loading exit node list">>
         /\ exit_cache' = cache_file.index
         /\ error' = ""
         /\ pc' = "count"
         /\ UNCHANGED cache_file
    ELSE IF net # "ok"
    THEN /\ log' = logged \o <<"downloading exit node list">>
         /\ error' = net
         /\ pc' = "failed"
         /\ UNCHANGED <<exit_cache, cache_file>>
    ELSE /\ log' = logged \o <<"downloading exit node list">>
                        \o BakeLog(batch)
         /\ exit_cache' = Baked(exit_cache, batch)
         /\ IF writable
            THEN /\ cache_file' = Dumped(exit_cache')
                 /\ error' = ""
                 /\ pc' = "count"
            ELSE /\ error' = "OSError"
                 /\ pc' = "failed"
                 /\ UNCHANGED cache_file

\* QubesCounter.fetch_exit_cache: urlopen and decompress, then
\* bake_exit_cache.  net is what the network and the archive do: "ok",
\* "URLError" (no archive arrives) or "DescriptorError" (the reader raises
\* after n descriptors); writable is whether the pickle can be opened for
\* writing; logged is the log before the call.
fetch_exit_cache(net, n, writable, logged) ==
    CASE net = "URLError" ->
            /\ log' = logged \o <<"downloading exit node list">>
            /\ error' = "URLError"
            /\ pc' = "failed"
            /\ UNCHANGED <<exit_cache, cache_file>>
      [] net = "DescriptorError" ->
            /\ log' = logged \o <<"downloading exit node list",
                                  "parsing exit node list">>
            /\ exit_cache' = RegisterBatch(exit_cache, batch, n)
            /\ error' = "DescriptorError"
            /\ pc' = "failed"
            /\ UNCHANGED cache_file
      [] OTHER ->
            /\ log' = logged \o <<"downloading exit node list">>
                        \o BakeLog(batch)
            /\ exit_cache' = Baked(exit_cache, batch)
            /\ IF writable
               THEN /\ cache_file' = Dumped(exit_cache')
                    /\ error' = ""
                    /\ pc' = "count"
               ELSE /\ error' = "OSError"
                    /\ pc' = "failed"
                    /\ UNCHANGED cache_file

\* QubesCounter.load_exit_cache: open() and pickle.load
load_exit_cache_outcome ==
    CASE cache_file.status = "ok" -> Returns(cache_file.index)
      [] cache_file.status = "corrupt" -> Raises("UnpicklingError")
      [] OTHER -> Raises("IOError")

\* QubesCounter.load_or_fetch_exit_cache: only IOError is caught
load_or_fetch_exit_cache(net, n, writable) ==
    LET loaded == load_exit_cache_outcome
    IN CASE loaded.raised = "" ->
                /\ exit_cache' = loaded.value
                /\ log' = log \o <<"loading exit node list">>
                /\ pc' = "count"
                /\ UNCHANGED <<cache_file, error>>
         [] loaded.raised = "IOError" ->
                fetch_exit_cache(net, n, writable,
                    log \o <<"loading exit node list",
                             "loading exit node list failed">>)
         [] OTHER ->
                /\ log' = log \o <<"loading exit node list">>
                /\ error' = loaded.raised
                /\ pc' = "failed"
                /\ UNCHANGED <<exit_cache, cache_file>>

NetOutcomes == {"ok", "URLError", "DescriptorError"}

\* main, lines 100-101: if force_fetch: counter.fetch_exit_cache()
main_fetch ==
    /\ pc = "start"
    /\ force_fetch
    /\ \E net \in NetOutcomes, n \in 0..Len(batch),
          writable \in WritableOutcomes :
          /\ net = "DescriptorError" => n < Len(batch)
          /\ net # "DescriptorError" => n = 0
          /\ net # "ok" => writable
          /\ fetch_exit_cache(net, n, writable, log)
    /\ UNCHANGED <<batch, countVars, parseVars, force_fetch, datafile>>

\* main, lines 102-103: else: counter.load_or_fetch_exit_cache()
main_load_or_fetch ==
    /\ pc = "start"
    /\ ~force_fetch
    /\ \E net \in NetOutcomes, n \in 0..Len(batch),
          writable \in WritableOutcomes :
          /\ net = "DescriptorError" => n < Len(batch)
          /\ net # "DescriptorError" => n = 0
          /\ net # "ok" => writable
          /\ load_or_fetch_exit_cache(net, n, writable)
    /\ UNCHANGED <<batch, countVars, parseVars, force_fetch, datafile>>

RECURSIVE CountAll(_, _, _, _)
CountAll(self, records, cache, year_and_month) ==
    IF records = <<>> THEN self
    ELSE CountAll(QubesCounter_count(self, Head(records), cache,
                                     year_and_month),
                  Tail(records), cache, year_and_month)

\* logging.log(25, 'parsing logfile %r', path) for the log file of the
\* configuration
ParsingLogfile == "parsing logfile './access.log'"

\* 'writing stats for period %r to datafile %s'
WritingStats(year_and_month) ==
    "writing stats for period '" \o timestamp(year_and_month)
        \o "' to datafile stats.json"

\* main has logged that it parses the log file and has opened it
LogfileOpened == \E k \in 1..Len(log) : log[k] = ParsingLogfile

\* main, lines 105-109: the log file is announced and opened and the
\* generators over it are made; no row is read yet
main_open_logfile ==
    /\ pc = "count"
    /\ ~LogfileOpened
    /\ log' = Append(log, ParsingLogfile)
    /\ UNCHANGED <<pc, indexVars, countVars, parseVars, force_fetch, error,
                   datafile>>

\* main, lines 105-113, for one more row of the log: parse, filter, count;
\* an exception of the parser ends the run
main_line(line) ==
    /\ pc = "count"
    /\ LogfileOpened
    /\ lineno < MaxLines
    /\ lineno' = lineno + 1
    /\ IF ParseLine(line).kind = "raise"
       THEN /\ pc' = "failed"
            /\ error' = "ValueError"
            /\ parser' = "raised"
            /\ UNCHANGED <<counter, fed, requests>>
       ELSE /\ counter' = CountAll(counter, Pipeline(line), exit_cache, scope)
            /\ fed' = fed \o Pipeline(line)
            /\ requests' = IF ParseLine(line).kind = "yield"
                           THEN Append(requests, ParseLine(line).request)
                           ELSE requests
            /\ UNCHANGED <<pc, error, parser>>
    /\ UNCHANGED <<indexVars, scope, file, force_fetch, log, datafile>>

\* QubesJSONEncoder.default on every Release of the counter: the mapping
\* release -> {plain, tor}, or the exception of one of them
EncodeCounter(self) ==
    IF \E r \in DOMAIN self : asdict(self[r]).raised # ""
    THEN Raises("ZeroDivisionError")
    ELSE Returns([r \in DOMAIN self |-> asdict(self[r]).value])

\* data['meta'] of a run with --no-last-updated
Meta == [title |-> "Estimated Qubes OS userbase",
         comment |-> "Current month is not reliable. The methodology of counting Tor users changed on April 2018.",
         source |-> "https://github.com/woju/qubes-stats"]

\* data[key] = value on a document started afresh
SetKey_afresh(data, key, value) == [k \in {key} |-> value]

\* data[key] = value on the loaded document
SetKey(data, key, value) ==
    [k \in DOMAIN data \cup {key} |-> IF k = key THEN value ELSE data[k]]

\* main, lines 112-140: the loop over the log ends when the generator of
\* parse_combined is exhausted; then load stats.json, set this month and
\* meta, dump
main_write ==
    /\ pc = "count"
    /\ LogfileOpened
    /\ parser' = "exhausted"
    /\ log' = Append(log, WritingStats(scope))
    /\ CASE datafile.status = "invalid" ->
                \* json.load raises JSONDecodeError, which is no IOError
                /\ error' = "JSONDecodeError"
                /\ pc' = "failed"
                /\ UNCHANGED datafile
         [] OTHER ->
                LET data == IF datafile.status = "missing"
                            THEN [k \in {} |-> <<>>]
                            ELSE datafile.data
                    opened == IF datafile.status = "missing"
                              THEN [status |-> "invalid"]  \* open(.., 'w')
                              ELSE datafile
                    encoded == EncodeCounter(counter)
                IN IF encoded.raised # ""
                   THEN /\ error' = encoded.raised
                        /\ pc' = "failed"
                        /\ datafile' = opened
                   ELSE /\ datafile' =
                              [status |-> "ok",
                               data |-> SetKey(SetKey(data, timestamp(scope),
                                                      encoded.value),
                                               "meta", Meta)]
                        /\ pc' = "done"
                        /\ UNCHANGED error
    /\ UNCHANGED <<indexVars, countVars, file, lineno, requests, force_fetch>>

(***************************************************************************)
(* SpecBake: bake.py main -- build the index of one month from an archive. *)
(***************************************************************************)
InitBake ==
    /\ pc = "start"
    /\ batch \in Batches
    /\ exit_cache = EmptyCache
    /\ cache_file = [status |-> "missing", index |-> EmptyCache]
    /\ scope = <<2022, 7>>
    /\ counter = EmptyCounter
    /\ fed = <<>>
    /\ file = <<>>
    /\ lineno = 0
    /\ parser = "suspended"
    /\ requests = <<>>
    /\ force_fetch = FALSE
    /\ error = ""
    /\ log = <<>>
    /\ datafile = [status |-> "missing"]

NextBake == bake_exit_cache

SpecBake == InitBake /\ [][NextBake]_vars

\* what the reader loop alone leaves in the cache, before any compact
Registered == RegisterBatch(EmptyCache, batch, Len(batch))

QueryTimes == -30 .. 60

(***************************************************************************)
(* SpecCount: QubesCounter.count called, record after record, on a counter *)
(* that has loaded a compacted index with load_exit_cache.                 *)
(***************************************************************************)
CountBatches ==
    {b \in Batches :
        /\ Len(b) <= 1
        /\ \A k \in 1..Len(b) :
              /\ b[k].exit_addresses = <<"A">>
              /\ <<b[k].published, b[k].last_status>> \in {<<0, 2>>, <<25, 27>>}}

InitCount ==
    /\ pc = "count"
    /\ batch \in CountBatches
    /\ exit_cache = Baked(EmptyCache, batch)
    /\ cache_file = [status |-> "ok", index |-> exit_cache]
    /\ scope = <<2022, 7>>
    /\ counter = EmptyCounter
    /\ fed = <<>>
    /\ file = <<>>
    /\ lineno = 0
    /\ parser = "suspended"
    /\ requests = <<>>
    /\ force_fetch = FALSE
    /\ error = ""
    /\ log = <<"loading exit node list">>
    /\ datafile = [status |-> "missing"]

NextCount == \E record \in Records : count(record)

SpecCount == InitCount /\ [][NextCount]_vars

(***************************************************************************)
(* SpecParse: a consumer drawing every Request out of parse_combined.      *)
(***************************************************************************)
InitParse ==
    /\ pc = "parse"
    /\ batch = <<>>
    /\ exit_cache = EmptyCache
    /\ cache_file = [status |-> "missing", index |-> EmptyCache]
    /\ scope = <<2022, 7>>
    /\ counter = EmptyCounter
    /\ fed = <<>>
    /\ file \in Files
    /\ lineno = 0
    /\ parser = "suspended"
    /\ requests = <<>>
    /\ force_fetch = FALSE
    /\ error = ""
    /\ log = <<>>
    /\ datafile = [status |-> "missing"]

NextParse == next_parse_combined

SpecParse == InitParse /\ [][NextParse]_vars

(***************************************************************************)
(* Spec: one run of count.py main for July 2022.                           *)
(***************************************************************************)
\* the archives of a run: none, one descriptor of A, and two descriptors of A
\* listed out of order that compact merges into one interval
RunBatches ==
    { <<>>,
      << [published |-> 0, last_status |-> 2, exit_addresses |-> <<"A">>] >>,
      << [published |-> 25, last_status |-> 27, exit_addresses |-> <<"A">>],
         [published |-> 0, last_status |-> 2, exit_addresses |-> <<"A">>] >> }

RunLines ==
    { Row("A", Jul01, Utc, GetRepomd, S200, L169),
      Row("B", Jul01, Utc, GetRepomd, S200, L169),
      Row("A", Jul01, Cest, GetAny, S301, L169),
      Row("A", Aug01, Utc, GetRepomd, S200, L169),
      Row("A", Jul01, Utc, Garbage, S400, L169),
      Row("A", Jul01, Utc, Garbage, S200, L169),
      Row("A", Jul01, Utc, GetRepomd, S404, L169),
      Row("A", Jul05, Utc, GetSpaces, S301, L169),
      Row("B", Jul01, Utc, GetAsc, S200, L169) }

OldMeta == [title |-> "Qubes OS userbase", source |-> ""]

OldData ==
    [k \in {"2022-06", "meta"} |->
        IF k = "meta" THEN OldMeta
        ELSE [r \in {"any"} |-> [plain |-> 5, tor |-> 1]]]

\* a document that already has an entry of the month of the run
RerunData ==
    [k \in {"2022-06", "2022-07", "meta"} |->
        IF k = "meta" THEN OldMeta
        ELSE IF k = "2022-06" THEN [r \in {"any"} |-> [plain |-> 6, tor |-> 2]]
        ELSE [r \in {"any", "r4.0"} |-> [plain |-> 9, tor |-> 9]]]

CacheFiles ==
    {[status |-> s, index |-> EmptyCache] :
        s \in {"missing", "unreadable", "corrupt"}}
    \cup {[status |-> "ok", index |-> Baked(EmptyCache, b)] : b \in RunBatches}

DataFiles ==
    {[status |-> "missing"], [status |-> "invalid"],
     [status |-> "ok", data |-> OldData],
     [status |-> "ok", data |-> RerunData]}

Init ==
    /\ pc = "start"
    /\ batch \in RunBatches
    /\ exit_cache = EmptyCache
    /\ cache_file \in CacheFiles
    /\ scope = <<2022, 7>>
    /\ counter = EmptyCounter
    /\ fed = <<>>
    /\ file = <<>>
    /\ lineno = 0
    /\ parser = "suspended"
    /\ requests = <<>>
    /\ force_fetch \in BOOLEAN
    /\ error = ""
    /\ log = <<>>
    /\ datafile \in DataFiles

Next ==
    \/ main_fetch
    \/ main_load_or_fetch
    \/ main_open_logfile
    \/ \E line \in RunLines : main_line(line)
    \/ main_write

Spec == Init /\ [][Next]_vars

(***************************************************************************)
(* Properties.                                                             *)
(***************************************************************************)
Logged(message) == \E k \in 1..Len(log) : log[k] = message

InScope(record) == year_month(record.timestamp) = scope

IsRelay(record) == was_exit(exit_cache, record.address, record.timestamp.utc)

\* the bucket of a label before it was ever touched is a new Release
BucketOf(self, label) ==
    IF label \in DOMAIN self THEN self[label] ELSE NewRelease

\* C1: compaction preserves query answers: for every address and every
\* timestamp, the compacted index answers was_exit as the intervals
\* registered from the batch did before compact.
C1_CompactionPreservesQueries ==
    pc = "baked" =>
        \A a \in Addresses, t \in QueryTimes :
            was_exit(exit_cache, a, t) = was_exit(Registered, a, t)

\* C2: when compact merges the two intervals of an address (sorted, with
\* currentEnd >= nextStart - tolerance), the one interval left starts at the
\* earlier start and contains every timestamp of both.
C2_MergedIntervalSpansBoth ==
    pc = "baked" =>
        \A a \in DOMAIN Registered :
            LET raw == sort(Registered[a])
            IN (/\ Len(raw) = 2
                /\ raw[1][2] >= raw[2][1] - EXIT_DESCRIPTOR_TOLERANCE)
               => /\ Len(exit_cache[a]) = 1
                  /\ exit_cache[a][1][1] = raw[1][1]
                  /\ \A k \in 1..2 : \A t \in raw[k][1]..raw[k][2] :
                        /\ exit_cache[a][1][1] <= t
                        /\ t <= exit_cache[a][1][2]

\* What the claims call a malformed line, stated on the fields themselves.
WrongFieldCount(line) == Len(line) # 10
NonInteger(text) == int(text).raised # ""
NoTwoSpaces(text) == Cardinality(Positions(text, " ")) < 2
BadTimestamp(line) == strptime(line[4], line[5]).raised # ""

\* ten fields, integer status and length, status 400
Rejected400(line) ==
    /\ ~WrongFieldCount(line)
    /\ ~NonInteger(line[7]) /\ ~NonInteger(line[8])
    /\ int(line[7]).value = 400

Malformed(line) ==
    \/ WrongFieldCount(line)
    \/ /\ ~Rejected400(line)
       /\ \/ NonInteger(line[7]) \/ NonInteger(line[8])
          \/ NoTwoSpaces(line[6])
          \/ BadTimestamp(line)

WellFormed(line) == ~Malformed(line) /\ ~Rejected400(line)

\* the Request of a well-formed line
RequestOf(line) ==
    LET k1 == Min(Positions(line[6], " "))
        k2 == Max(Positions(line[6], " "))
    IN Request(line[1], strptime(line[4], line[5]).value,
               unquote(SubSeq(line[6], k1 + 1, k2 - 1)), int(line[7]).value)

RECURSIVE RequestsOf(_)
RequestsOf(rows) ==
    IF rows = <<>> THEN <<>>
    ELSE LET before == RequestsOf(SubSeq(rows, 1, Len(rows) - 1))
             last == rows[Len(rows)]
         IN IF WellFormed(last) THEN Append(before, RequestOf(last))
            ELSE before

\* C3 as stated: a malformed line never aborts the stream; once the
\* generator has finished, every well-formed line with status other than
\* 400 has had its Request emitted.
C3_ParseFailureNeverAborts ==
    /\ parser # "raised"
    /\ parser = "exhausted" => requests = RequestsOf(file)

\* the field the claim calls the status field reads 400
StatusField400(line) == Len(line) >= 7 /\ line[7] = S400

\* C4 as stated: a line whose status field is 400 produces no error,
\* whatever its other fields and however many of them there are.
C4_Status400NeverRaises ==
    \A i \in 1..lineno :
        StatusField400(file[i]) => ~(parser = "raised" /\ lineno = i)

\* C5: count of an in-scope record classifies it once: relay adds exactly 1
\* to req_tor, plain adds the address to set_plain and exactly 1 to
\* req_plain, on the bucket of the release and on "any", and nothing else
\* changes.
C5_CountClassifiesOnce ==
    [][\A record \in Records :
        (count(record) /\ InScope(record)) =>
            /\ DOMAIN counter' = DOMAIN counter \cup {record.release, "any"}
            /\ \A label \in DOMAIN counter \ {record.release, "any"} :
                  counter'[label] = counter[label]
            /\ \A label \in {record.release, "any"} :
                  LET old == BucketOf(counter, label)
                  IN IF IsRelay(record)
                     THEN counter'[label] =
                            [old EXCEPT !.req_tor = @ + 1]
                     ELSE counter'[label] =
                            [old EXCEPT !.req_plain = @ + 1,
                                        !.set_plain = @ \cup {record.address}]
      ]_vars

\* C6: count of a record of another (year, month) than the counter's
\* changes no bucket and creates none.
C6_OutOfScopeChangesNothing ==
    [][\A record \in Records :
        (count(record) /\ ~InScope(record)) => counter' = counter]_vars

\* an out-of-scope record was counted after an in-scope one
C6_Witness ==
    /\ Len(fed) = 2
    /\ InScope(fed[1]) /\ ~InScope(fed[2])
    /\ DOMAIN counter = {fed[1].release, "any"}

\* C7: when the pickle cannot be loaded, for whatever reason, a run that
\* does not force the fetch goes on to download the exit list.
C7_LoadFailureFallsBackToFetch ==
    (~force_fetch /\ pc # "start" /\ cache_file.status # "ok") =>
        Logged("downloading exit node list")

FetchErrors == {"URLError", "DescriptorError"}

\* C8 as stated: when the fetch fails and a usable cache exists, the run
\* does not fail.
C8_FetchFailureFallsBackToCache ==
    (error \in FetchErrors /\ cache_file.status = "ok") => pc # "failed"

\* C8 amended: a failed fetch fails the run whether or not a usable cache
\* exists; a forced run counts only over the index it has just baked; the
\* cache is used only by an unforced run, which loads it first and then
\* fetches nothing.
C8_FetchFailureFailsRun ==
    /\ error \in FetchErrors => pc = "failed" /\ counter = EmptyCounter
    /\ error = "OSError" =>
          /\ pc = "failed" /\ counter = EmptyCounter
          /\ exit_cache = Baked(EmptyCache, batch)
    /\ (force_fetch /\ pc # "start" /\ error \notin FetchErrors) =>
          /\ exit_cache = Baked(EmptyCache, batch)
          /\ error # "OSError" =>
                /\ cache_file.index = exit_cache
                /\ cache_file.status \in {"ok", "unreadable"}
    /\ (~force_fetch /\ pc # "start"
            /\ ~Logged("loading exit node list failed")
            /\ error # "UnpicklingError") =>
          /\ exit_cache = cache_file.index
          /\ ~Logged("downloading exit node list")

\* a forced fetch failed although a usable cache was on disk
C8_Witness ==
    /\ force_fetch
    /\ error = "URLError"
    /\ cache_file.status = "ok"
    /\ pc = "failed"

\* C9: a bucket whose req_plain is 0 has counted only relay traffic, its tor
\* and asdict raise ZeroDivisionError, and a run that comes to write it
\* fails: it never ends with this bucket in the document.
C9_ZeroPlainIsFatal ==
    /\ \A r \in DOMAIN counter :
          counter[r].req_plain = 0 =>
              /\ counter[r].req_tor > 0
              /\ tor(counter[r]) = Raises("ZeroDivisionError")
              /\ asdict(counter[r]) = Raises("ZeroDivisionError")
    /\ (Logged(WritingStats(scope))
            /\ \E r \in DOMAIN counter : counter[r].req_plain = 0) =>
          /\ pc = "failed"
          /\ error \in {"ZeroDivisionError", "JSONDecodeError"}

\* the run died writing a bucket of relay traffic alone
C9_Witness ==
    /\ pc = "failed"
    /\ error = "ZeroDivisionError"
    /\ \E r \in DOMAIN counter :
          counter[r].req_plain = 0 /\ counter[r].req_tor > 0

Orders(n) ==
    {p \in [1..n -> 1..n] : \A i, j \in 1..n : p[i] = p[j] => i = j}

\* C10: the counter does not depend on the order of the records: counting
\* the records fed so far in any other order gives the same buckets.
C10_OrderDoesNotMatter ==
    \A p \in Orders(Len(fed)) :
        CountAll(EmptyCounter, [k \in 1..Len(fed) |-> fed[p[k]]],
                 exit_cache, scope) = counter

\* two different in-scope records, one relay and one plain, were counted
C10_Witness ==
    /\ Len(fed) >= 2
    /\ InScope(fed[1]) /\ InScope(fed[2])
    /\ IsRelay(fed[1]) /\ ~IsRelay(fed[2])
    /\ "any" \in DOMAIN counter
    /\ counter["any"].req_tor = 1 /\ counter["any"].req_plain >= 1

(***************************************************************************)
(* The index: queries and the shape of compacted lists.                    *)
(***************************************************************************)
\* the addresses of the batch with exactly one registered interval
SingleInterval == {a \in DOMAIN Registered : Len(Registered[a]) = 1}

\* C11: for an address with a single registered interval (s, e), was_exit is
\* true at every t with s - tolerance <= t <= e + tolerance, both ends
\* included, and false at every t below s - tolerance or above e + tolerance.
C11_SingleIntervalQuery ==
    pc = "baked" =>
        LET registered == Registered
        IN \A a \in DOMAIN registered :
              Len(registered[a]) = 1 =>
                  LET s == registered[a][1][1]
                      e == registered[a][1][2]
                  IN \A t \in QueryTimes :
                        was_exit(exit_cache, a, t)
                           <=> (s - EXIT_DESCRIPTOR_TOLERANCE <= t
                                /\ t <= e + EXIT_DESCRIPTOR_TOLERANCE)

C11_Witness ==
    /\ pc = "baked"
    /\ \E a \in SingleInterval :
          LET s == Registered[a][1][1]
              e == Registered[a][1][2]
          IN /\ was_exit(exit_cache, a, s - EXIT_DESCRIPTOR_TOLERANCE)
             /\ was_exit(exit_cache, a, e + EXIT_DESCRIPTOR_TOLERANCE)
             /\ ~was_exit(exit_cache, a, s - EXIT_DESCRIPTOR_TOLERANCE - 1)
             /\ ~was_exit(exit_cache, a, e + EXIT_DESCRIPTOR_TOLERANCE + 1)

\* C12: an address no descriptor of the batch registered is no exit at any
\* timestamp, before the bake and after other addresses were registered and
\* compacted.
C12_UnregisteredIsNeverExit ==
    LET registered == Registered
    IN \A a \in Addresses \ DOMAIN registered : \A t \in QueryTimes :
          ~was_exit(exit_cache, a, t)

C12_Witness ==
    /\ pc = "baked"
    /\ \E a \in Addresses \ DOMAIN Registered :
          \E b \in DOMAIN exit_cache, t \in QueryTimes :
              /\ was_exit(exit_cache, b, t)
              /\ ~was_exit(exit_cache, a, t)

\* C13: compaction is idempotent: compact applied to the compacted list of
\* an address returns that same list.
C13_CompactIsIdempotent ==
    pc = "baked" =>
        \A a \in DOMAIN exit_cache :
            compact(exit_cache[a]) = exit_cache[a]

C13_Witness ==
    /\ pc = "baked"
    /\ \E a \in DOMAIN exit_cache :
          /\ Len(Registered[a]) = 3
          /\ Len(exit_cache[a]) < 3
          /\ compact(exit_cache[a]) = exit_cache[a]

\* C14: after compact the intervals of an address are sorted by start and
\* consecutive intervals are at least the tolerance apart:
\* start(i+1) - end(i) is not less than the tolerance.
C14_CompactedIsSortedAndApart ==
    pc = "baked" =>
        \A a \in DOMAIN exit_cache :
            \A i \in 1..(Len(exit_cache[a]) - 1) :
                /\ exit_cache[a][i][1] <= exit_cache[a][i + 1][1]
                /\ exit_cache[a][i + 1][1] - exit_cache[a][i][2]
                      >= EXIT_DESCRIPTOR_TOLERANCE

\* three intervals registered out of order, two of them merged and the third
\* kept apart
C14_Witness ==
    /\ pc = "baked"
    /\ \E a \in DOMAIN exit_cache :
          /\ Len(Registered[a]) = 3
          /\ Registered[a][1][1] > Registered[a][2][1]
          /\ Len(exit_cache[a]) = 2

(***************************************************************************)
(* The counter: buckets and their output.                                  *)
(***************************************************************************)
\* C15: in every state of the counter and for every bucket, "any" included,
\* the number of addresses in set_plain never exceeds req_plain.
C15_UniquePlainAtMostRequestsPlain ==
    \A r \in DOMAIN counter : plain(counter[r]) <= counter[r].req_plain

\* a bucket that saw one plain address more than once and one that saw two
C15_Witness ==
    /\ \E r \in DOMAIN counter :
          plain(counter[r]) = 1 /\ counter[r].req_plain >= 2
    /\ \E r \in DOMAIN counter : plain(counter[r]) = 2

\* the bucket with its req_tor set to n, everything else kept
WithReqTor(self, n) == [self EXCEPT !.req_tor = n]

\* C16 as stated: for every bucket, tor is a number that is not negative,
\* and it does not decrease when req_tor grows while set_plain and
\* req_plain are kept.
C16_TorOfEveryBucket ==
    \A r \in DOMAIN counter :
        /\ tor(counter[r]).raised = ""
        /\ tor(counter[r]).value >= 0
        /\ \A m \in 0..(counter[r].req_tor + 1) : \A n \in 0..m :
              tor(WithReqTor(counter[r], n)).value
                  <= tor(WithReqTor(counter[r], m)).value

\* C16 amended: for every bucket that counted a plain request, tor is
\* defined and not negative, and it does not decrease when req_tor grows
\* while set_plain and req_plain are kept; for a bucket that counted only
\* relay requests tor is no number: it raises ZeroDivisionError, and does so
\* whatever req_tor is.
C16_TorNonNegativeAndMonotone ==
    \A r \in DOMAIN counter :
        IF counter[r].req_plain > 0
        THEN /\ tor(counter[r]).raised = ""
             /\ tor(counter[r]).value >= 0
             /\ \A m \in 0..(counter[r].req_tor + 1) : \A n \in 0..m :
                   tor(WithReqTor(counter[r], n)).value
                       <= tor(WithReqTor(counter[r], m)).value
        ELSE \A n \in 0..(counter[r].req_tor + 1) :
                tor(WithReqTor(counter[r], n)).raised = "ZeroDivisionError"

\* one bucket has counted two plain requests of one address and one relay
\* request, another only a relay request
C16_Witness ==
    /\ \E r \in DOMAIN counter :
          /\ counter[r].req_plain = 2
          /\ plain(counter[r]) = 1
          /\ counter[r].req_tor = 1
          /\ tor(counter[r]).value = 0
          /\ tor(WithReqTor(counter[r], 2)).value = 1
    /\ \E r \in DOMAIN counter :
          counter[r].req_plain = 0 /\ counter[r].req_tor = 1

\* the in-scope records fed so far that carry the label
RecordsOf(label) ==
    {k \in 1..Len(fed) : InScope(fed[k]) /\ fed[k].release = label}

\* the in-scope records fed so far, of every label
RecordsInScope == {k \in 1..Len(fed) : InScope(fed[k])}

AddressesOf(ks) == {fed[k].address : k \in ks}

\* C17: a label whose in-scope records are all direct traffic, and at least
\* one, has the output {plain: number of distinct addresses among those
\* records, tor: 0}; when no in-scope record is relay traffic the "any"
\* bucket reports the number of distinct addresses over all labels.
C17_DirectOnlyOutput ==
    /\ \A label \in Releases :
          (/\ RecordsOf(label) # {}
           /\ \A k \in RecordsOf(label) : ~IsRelay(fed[k]))
          => /\ label \in DOMAIN counter
             /\ asdict(counter[label])
                   = Returns([plain |-> Cardinality(AddressesOf(RecordsOf(label))),
                              tor |-> 0])
    /\ (/\ RecordsInScope # {}
        /\ \A k \in RecordsInScope : ~IsRelay(fed[k]))
       => /\ "any" \in DOMAIN counter
          /\ asdict(counter["any"])
                = Returns([plain |-> Cardinality(AddressesOf(RecordsInScope)),
                           tor |-> 0])

(***************************************************************************)
(* The classifier, the request field and the persisted document.           *)
(***************************************************************************)
\* the paths of the log the pattern of DEFAULT_PARSERS matches, with the
\* release it captures
PathRepomd == <<"/", "r4.1", "/", "repomd.xml">>
PathAny == <<"/", "any", "/", "repomd.xml">>

ExpectedRelease(path) ==
    CASE path = PathRepomd -> "r4.1"
      [] path = PathAny -> "any"
      [] OTHER -> ""

RECURSIVE Classified(_)
Classified(reqs) ==
    IF reqs = <<>> THEN <<>>
    ELSE LET before == Classified(SubSeq(reqs, 1, Len(reqs) - 1))
             last == reqs[Len(reqs)]
         IN IF /\ 200 <= last.status /\ last.status < 400
               /\ ExpectedRelease(last.path) # ""
            THEN Append(before, [address |-> last.address,
                                 timestamp |-> last.timestamp,
                                 release |-> ExpectedRelease(last.path)])
            ELSE before

\* C18: a request becomes a Record, with its address and timestamp and the
\* captured release, if and only if 200 <= status < 400 and the pattern
\* matches its path; the records passed to count are exactly those, every
\* other request is dropped.
C18_ClassifierYieldsExactlyMatching ==
    fed = Classified(requests)

\* a 404 of a matching path and a redirect of a path that does not match
\* were dropped, a matching 200 was counted
C18_Witness ==
    /\ Len(requests) = 3 /\ Len(fed) = 1
    /\ \E k \in 1..3 : requests[k].status = 404 /\ requests[k].path = PathRepomd
    /\ \E k \in 1..3 :
          /\ requests[k].status = 301
          /\ requests[k].path = <<"/", "shell?cd+", " ", "x">>
    /\ \E k \in 1..3 : requests[k].status = 200 /\ requests[k].path = PathRepomd
    /\ "r4.1" \in DOMAIN counter

\* the rows before row i that are well formed and not rejected
EmittedUpTo(i) == {j \in 1..i : WellFormed(file[j])}

\* C19: a row the generator reached whose request field has two spaces or
\* more (the other fields well formed, status other than 400) is emitted as
\* a Request whose path is the text between the first and the last space,
\* embedded spaces kept, percent-decoded; the generator is not ended by it.
C19_PathBetweenFirstAndLastSpace ==
    \A i \in 1..lineno :
        (/\ \A j \in 1..i : ~Malformed(file[j])
         /\ ~Rejected400(file[i])
         /\ Cardinality(Positions(file[i][6], " ")) >= 2)
        => LET n == Cardinality(EmittedUpTo(i))
               first == Min(Positions(file[i][6], " "))
               last == Max(Positions(file[i][6], " "))
           IN /\ Len(requests) >= n
              /\ requests[n].address = file[i][1]
              /\ requests[n].path
                    = unquote(SubSeq(file[i][6], first + 1, last - 1))
              /\ lineno = i => parser # "raised"

\* a request with a space inside its target was emitted with the space in
\* its path, and so was the row after it
C19_Witness ==
    /\ Len(requests) = 2 /\ lineno = 2
    /\ requests[1].path = <<"/", "shell?cd+", " ", "x">>
    /\ requests[1].status = 301
    /\ parser = "suspended"

\* the document main loads: empty when stats.json is missing
LoadedData(f) == IF f.status = "ok" THEN f.data ELSE [k \in {} |-> <<>>]

\* C20: a run that writes its result sets the entry of its YYYY-MM key to
\* the mapping release -> {plain, tor} of the counter and replaces "meta";
\* the entries of every other month of the document are left as they were,
\* also when the document already had an entry of this month.
C20_WriteReplacesOnlyThisMonth ==
    [][(pc = "count" /\ pc' = "done") =>
          LET old == LoadedData(datafile)
              new == datafile'.data
              month == timestamp(scope)
          IN /\ datafile'.status = "ok"
             /\ DOMAIN new = DOMAIN old \cup {month, "meta"}
             /\ DOMAIN new[month] = DOMAIN counter
             /\ \A r \in DOMAIN counter :
                   new[month][r] = [plain |-> plain(counter[r]),
                                    tor |-> tor(counter[r]).value]
             /\ new["meta"] = Meta
             /\ \A k \in DOMAIN old \ {month, "meta"} : new[k] = old[k]
      ]_vars

\* the month was run again over a document that had it and another month
C20_Witness ==
    /\ pc = "done"
    /\ datafile.status = "ok"
    /\ DOMAIN datafile.data = {"2022-06", "2022-07", "meta"}
    /\ datafile.data["2022-06"] = RerunData["2022-06"]
    /\ DOMAIN datafile.data["2022-07"] = {"any", "r4.1"}
    /\ datafile.data["2022-07"]["any"] = [plain |-> 2, tor |-> 0]
    /\ datafile.data["meta"] = Meta

(***************************************************************************)
(* The order of a run: build the index, then count.                        *)
(***************************************************************************)
\* C21: in every run, whichever way the index was obtained, every interval
\* list of the index is compacted when the counting loop begins, and from
\* then on the index does not change: no list is registered to or
\* compacted, no entry is created by a query, the pickle is left alone.
C21_IndexCompactedThenReadOnly ==
    [][/\ pc' = "count" =>
            \A a \in DOMAIN exit_cache' :
                compact(exit_cache'[a]) = exit_cache'[a]
       /\ pc = "count" =>
            /\ exit_cache' = exit_cache
            /\ cache_file' = cache_file
      ]_vars

\* two descriptors of A were merged into one interval before the loop counted
\* a relay record of A and a record of B, which the index does not know
C21_Witness ==
    /\ pc = "count"
    /\ Len(batch) = 2
    /\ DOMAIN exit_cache = {"A"}
    /\ exit_cache["A"] = << <<0, 27>> >>
    /\ \E k \in 1..Len(fed) : fed[k].address = "B"
    /\ \E k \in 1..Len(fed) : fed[k].address = "A" /\ IsRelay(fed[k])

(***************************************************************************)
(* The aggregate bucket and the document after a failed run.               *)
(***************************************************************************)
\* the labels the in-scope records fed so far carry
LabelsInScope == {fed[k].release : k \in RecordsInScope}

\* C22: after any sequence of count calls the bucket "any" is the exact
\* aggregate of the in-scope records: its req_plain and req_tor are the
\* numbers of in-scope records classified plain and relay, each counted
\* once, and its set_plain is the union of the sets of the buckets of the
\* labels, whatever the labels are, the label "any" included.
C22_AnyIsExactAggregate ==
    RecordsInScope # {} =>
        /\ "any" \in DOMAIN counter
        /\ counter["any"].req_plain
              = Cardinality({k \in RecordsInScope : ~IsRelay(fed[k])})
        /\ counter["any"].req_tor
              = Cardinality({k \in RecordsInScope : IsRelay(fed[k])})
        /\ counter["any"].set_plain
              = UNION {counter[r].set_plain : r \in LabelsInScope}

\* what json.load makes of stats.json in a later run: a missing file is
\* started afresh, an empty or broken one is a JSONDecodeError
LaterRunCanLoad(f) == f.status \in {"missing", "ok"}

\* C23: a run that fails while serializing its result leaves the document
\* as it was, with every month it had, and leaves the file in a state a
\* later run can load, whether or not the file existed before the run.
C23_FailedWriteKeepsDocument ==
    [][(pc = "count" /\ pc' = "failed" /\ error' = "ZeroDivisionError") =>
          /\ LoadedData(datafile') = LoadedData(datafile)
          /\ LaterRunCanLoad(datafile')
      ]_vars

====
